---- MODULE Spec2Model ----
(***************************************************************************)
(* rtm0/era5: the ERA5 scanner (internal/era5), the Victoria Metrics       *)
(* insert client (internal/vm) and the two main programs that wire them    *)
(* into a producer / worker pool / progress aggregator pipeline.           *)
(*                                                                         *)
(* Go indexes (pos, i, begin, limit) keep their 0-based values; sequences  *)
(* are 1-based, so element x of a Go slice is element x + 1 here.          *)
(***************************************************************************)
EXTENDS Integers, Sequences, FiniteSets, TLC

\* ------------------------------------------------------------- bounds
MaxT == 2          \* timestamps in the input file: 0..MaxT
MaxLat == 2        \* latitudes in the input file: 0..MaxLat
MaxLon == 2        \* longitudes in the input file: 1..MaxLon
MaxWorkers == 2    \* -concurrency: 1..MaxWorkers
MaxChunk == 3      \* -recsPerInsert: 1..MaxChunk
MaxLimit == 2      \* -limitHours: 0..MaxLimit
MaxPrefixLen == 3  \* -metricPrefix: every text of up to MaxPrefixLen of PrefixChars
MaxHourStep == 1   \* time values: up to MaxHourStep from each of the hours of interest

\* ------------------------------------------------- program constants
NumMetrics == 6
MaxInt32 == 2147483647  \* dimValues[int32](nc, "time")
LoadedCap == 0     \* make(chan int)
DoneCap == 0       \* make(chan bool)
ExtractedCapOne == LoadedCap + 1  \* mutant: make(chan []era5.Record, 1)
ExtractedCap == 0  \* make(chan []era5.Record)

MetricNames == <<"u10", "v10", "t2m", "sf", "tcc", "tp">>

\* the characters of the metric prefixes tried, and the prefixes tried
\* whatever their length
PrefixChars == {"a", "Z", "5", "-", " ", "\n"}
PrefixExamples ==
  {<<"e", "r", "a", "-", "5">>, <<"e", "r", "a", " ", "5">>, <<>>,
   <<"e", "r", "a", "5">>, <<"E", "R", "A", "5", "x", "1">>}

\* --------------------------------------------------- the input file
\* The NetCDF file is an opaque collaborator: its dimension vectors and
\* metric cubes are sample data, distinct in every coordinate so that a
\* misplaced index shows.
FileHour(t) == 438300 * (t - 1)
FileLat(i) == 90 - (i - 1)
FileLon(j) == j - 1
FileValue(m, t, i, j) == 1000 * m + 100 * t + 10 * i + j

File(T, A, O) ==
  [time      |-> [t \in 1..T |-> FileHour(t)],
   latitude  |-> [i \in 1..A |-> FileLat(i)],
   longitude |-> [j \in 1..O |-> FileLon(j)]]

VARIABLES
  file,           \* the opened NetCDF file's dimension vectors
  ncOpen,         \* the file handle s.nc is open
  limitHours,     \* flag -limitHours
  concurrency,    \* flag -concurrency
  recsPerInsert,  \* flag -recsPerInsert
  prog,           \* which main program runs: "part_002" or "part_003"
  vmCli,          \* vm.NewClient's arguments and what it returned
  s,              \* the Scanner: la, lo, ts, pos, recs, err
  call,           \* scanner driver: the latest call and what it returned
  prev,           \* scanner driver: the call before it
  prodPc,         \* the producer's position
  returned,       \* what the producer's s.Records() calls returned: time index and length of each batch
  extracted,      \* channel extracted / recsCh: the batches offered and not yet received
  extractedClosed,
  wk,             \* the loaders: pc and the locals recs, n, i of each
  loaded,         \* channel loaded / progressCh: the counts offered and not yet received
  loadedClosed,
  loaders,        \* the WaitGroup counter
  agg,            \* the progress goroutine: pc and the locals n, inserted, total
  done,           \* channel done
  doneClosed,
  mainPc,         \* main's position
  posted,         \* the POST bodies sent so far, per timestamp index, in order
  logged,         \* the error messages logged so far
  panicked,       \* a send on, or a close of, a closed channel happened
  taken,          \* the batches received from extracted, in the order received
  counted,        \* the counts received from loaded, in the order received
  closes,         \* the number of calls of s.Close()
  inserting       \* the number of Insert calls begun and not yet returned

flagVars == <<concurrency, recsPerInsert, prog, vmCli>>
driverVars == <<call, prev>>
pipeVars == <<prodPc, returned, extracted, extractedClosed, wk, loaded, loadedClosed,
              loaders, agg, done, doneClosed, mainPc, posted, logged, panicked,
          taken,
          counted,
          closes,
          inserting>>
vars == <<file, ncOpen, limitHours, concurrency, recsPerInsert, prog, vmCli, s, call, prev,
          prodPc, returned, extracted, extractedClosed, wk, loaded, loadedClosed,
          loaders, agg, done, doneClosed, mainPc, posted, logged, panicked,
          taken,
          counted,
          closes,
          inserting>>

\* ------------------------------------------------------ the VM client
\* Strings that the code looks into are sequences of one-character strings.
LowerCase == {"a", "b", "c", "d", "e", "f", "g", "h", "i", "j", "k", "l", "m",
              "n", "o", "p", "q", "r", "s", "t", "u", "v", "w", "x", "y", "z"}
UpperCase == {"A", "B", "C", "D", "E", "F", "G", "H", "I", "J", "K", "L", "M",
              "N", "O", "P", "Q", "R", "S", "T", "U", "V", "W", "X", "Y", "Z"}
Digits == {"0", "1", "2", "3", "4", "5", "6", "7", "8", "9"}

\* [a-zA-Z0-9]+ from position i of text: the position after the longest
\* run of characters of the class, or 0 when there is none at i
RECURSIVE ClassRun(_, _)
ClassRun(text, i) ==
  IF i <= Len(text) /\ text[i] \in LowerCase \cup UpperCase \cup Digits
  THEN LET j == ClassRun(text, i + 1) IN IF j = 0 THEN i + 1 ELSE j
  ELSE 0

\* mutant: the expression without its anchors, found anywhere in the text
MatchAnywhere(text) == \E i \in 1..Len(text) : ClassRun(text, i) # 0

\* regexp.Match(metricPrefixRE, text) for metricPrefixRE = "^[a-zA-Z0-9]+$":
\* the run starts at the beginning of the text and stops at its end
MatchMetricPrefixRE(text) == ClassRun(text, 1) = Len(text) + 1

InfluxPaths == {"/influx/write", "/influx/api/v2/write", "/write", "/api/v2/write"}
CSVPath == "/api/v1/import/csv"

apiParamsFuncs(path) ==
  IF path \in InfluxPaths THEN "influxDBAPIParams"
  ELSE IF path = CSVPath THEN "csvAPIParams"
  ELSE "nil"

\* the query parameters an API needs: none, or the CSV format with the
\* metric names built from the prefix
apiParams(f, metricPrefix) ==
  IF f = "csvAPIParams" THEN {<<"format", metricPrefix>>} ELSE {}

\* mutant: every path has the line protocol encoder
recToTextFuncsOneEncoder(path) ==
  IF path \in InfluxPaths \cup {CSVPath} THEN "recToInfluxDB" ELSE "nil"

recToTextFuncs(path) ==
  IF path \in InfluxPaths THEN "recToInfluxDB"
  ELSE IF path = CSVPath THEN "recToCSV"
  ELSE "nil"

\* a *Client: nil, or a pointer to a Client
NilClient == <<>>
NewOf(c) == <<c>>

\* NewClient. url.Parse is the standard library's: insertURL is given by
\* whether it parses and, if so, by its Path and its Query().
NewClient(insertURL, maxConns, metricPrefix) ==
  IF ~insertURL.parses
  THEN [cli |-> NilClient, err |-> "parse error"]
  ELSE IF ~MatchMetricPrefixRE(metricPrefix)
  THEN [cli |-> NilClient, err |-> "metric prefix does not match regular expression"]
  ELSE IF apiParamsFuncs(insertURL.Path) = "nil"
  THEN [cli |-> NilClient, err |-> "inserting is not supported"]
  ELSE IF recToTextFuncs(insertURL.Path) = "nil"
  THEN [cli |-> NilClient, err |-> "inserting is not supported"]
  ELSE [cli |-> NewOf(
                [insertURL    |-> [Path  |-> insertURL.Path,
                                   Query |-> insertURL.Query \cup
                                             apiParams(apiParamsFuncs(insertURL.Path),
                                                       metricPrefix)],
                 maxConns     |-> maxConns,
                 metricPrefix |-> metricPrefix,
                 recToText    |-> recToTextFuncs(insertURL.Path)]),
        err |-> "nil"]

\* the flags' defaults: -vmInsertUrl http://localhost:8428/write, -metricPrefix era5
DefaultURL == [parses |-> TRUE, Path |-> "/write", Query |-> {}]
DefaultPrefix == <<"e", "r", "a", "5">>

\* main's call of vm.NewClient
CallNewClient(insertURL, maxConns, metricPrefix) ==
  [called |-> TRUE, insertURL |-> insertURL, maxConns |-> maxConns,
   metricPrefix |-> metricPrefix, ret |-> NewClient(insertURL, maxConns, metricPrefix)]

\* ----------------------------------------------------------- Scanner
Min(a, b) == IF a < b THEN a ELSE b

\* int64 arithmetic. The model checker's integers are 32 bits wide, so an
\* int64 is held as four limbs <<l0, l1, l2, top>> of radix 10000 with value
\* l0 + l1*10^4 + l2*10^8 + top*10^12, where 0 <= l0, l1, l2 < 10000 and top
\* carries the sign: one tuple per value, ordered as the values are.
Carry(x) ==
  LET a1 == x[2] + (x[1] \div 10000)
      a2 == x[3] + (a1 \div 10000)
  IN  <<x[1] % 10000, a1 % 10000, a2 % 10000, x[4] + (a2 \div 10000)>>

\* int64(h) of an int32 h
Int64(h) == Carry(<<h, 0, 0, 0>>)

Add64(x, y) == Carry(<<x[1] + y[1], x[2] + y[2], x[3] + y[3], x[4] + y[4]>>)

\* x * k for a constant 0 <= k <= 3600
Mul64(x, k) == Carry(<<x[1] * k, x[2] * k, x[3] * k, x[4] * k>>)

Less64(x, y) ==
  \/ x[4] < y[4]
  \/ x[4] = y[4] /\ x[3] < y[3]
  \/ x[4] = y[4] /\ x[3] = y[3] /\ x[2] < y[2]
  \/ x[4] = y[4] /\ x[3] = y[3] /\ x[2] = y[2] /\ x[1] < y[1]

\* the least and the greatest int64
MinInt64 == Carry(<<-5808, -5477, -368, -9223372>>)
MaxInt64 == <<5807, 5477, 368, 9223372>>

\* const unixSecs1900 = -2208988800
unixSecs1900 == Carry(<<-8800, -898, -22, 0>>)

\* mutant: seconds, not milliseconds
EpochSeconds(h) == Add64(Mul64(Int64(h), 3600), unixSecs1900)

\* s.ts[i] = (int64(h)*3600 + unixSecs1900) * 1000
EpochMillis(h) == Mul64(Add64(Mul64(Int64(h), 3600), unixSecs1900), 1000)

\* -limitHours: only the first min(limit, len(ts)) timestamps are kept;
\* 0 means no limit.
LimitTimestamps(ts, limit) ==
  IF limit > 0 THEN SubSeq(ts, 1, Min(limit, Len(ts))) ELSE ts

NewScanner(f, limit) ==
  [la   |-> f.latitude,
   lo   |-> f.longitude,
   ts   |-> LimitTimestamps([i \in 1..Len(f.time) |-> EpochMillis(f.time[i])], limit),
   pos  |-> 0,
   recs |-> <<>>,
   err  |-> "nil"]

\* len(s.ts) * len(s.la) * len(s.lo) * 6
TotalRecCount(sc) == Len(sc.ts) * Len(sc.la) * Len(sc.lo) * NumMetrics

\* mutant: the slice after the one at pos
GetSliceNext(sc, m) ==
  [i \in 1..Len(sc.la) |-> [j \in 1..Len(sc.lo) |-> FileValue(m, sc.pos + 2, i, j)]]

\* vg.GetSlice(begin, limit)[0] for begin = s.pos, limit = begin + 1: the
\* lat x lon slice of metric m at time index pos.
GetSlice(sc, m) ==
  [i \in 1..Len(sc.la) |-> [j \in 1..Len(sc.lo) |-> FileValue(m, sc.pos + 1, i, j)]]

NewRecord(sc, v, i, j) ==
  [Timestamp          |-> sc.ts[sc.pos + 1],
   Latitude           |-> sc.la[i],
   Longitude          |-> sc.lo[j],
   ZonalWind10M       |-> v[1][i][j],
   MeridionalWind10M  |-> v[2][i][j],
   Temperature2M      |-> v[3][i][j],
   Snowfall           |-> v[4][i][j],
   TotalCloudCover    |-> v[5][i][j],
   TotalPrecipitation |-> v[6][i][j]]

\* the inner loop: for j, lo := range s.lo
RECURSIVE RowRecords(_, _, _, _)
RowRecords(sc, v, i, j) ==
  IF j > Len(sc.lo) THEN <<>>
  ELSE <<NewRecord(sc, v, i, j)>> \o RowRecords(sc, v, i, j + 1)

\* the outer loop: for i, la := range s.la
RECURSIVE GridRecords(_, _, _)
GridRecords(sc, v, i) ==
  IF i > Len(sc.la) THEN <<>>
  ELSE RowRecords(sc, v, i, 1) \o GridRecords(sc, v, i + 1)

\* mutant: a failed read is not recorded
ScanDropsError(sc, failAt) ==
  IF sc.pos >= Len(sc.ts) \/ failAt # 0
  THEN [s |-> sc, ret |-> FALSE]
  ELSE [s |-> [sc EXCEPT
                 !.recs = GridRecords(sc, [m \in 1..NumMetrics |-> GetSlice(sc, m)], 1),
                 !.pos = sc.pos + 1],
        ret |-> TRUE]

\* mutant: a timestamp that cannot be read is passed over
ScanSkipsOnError(sc, failAt) ==
  IF sc.pos >= Len(sc.ts)
  THEN [s |-> sc, ret |-> FALSE]
  ELSE IF failAt # 0
  THEN [s |-> [sc EXCEPT !.err = MetricNames[failAt], !.pos = sc.pos + 1], ret |-> FALSE]
  ELSE [s |-> [sc EXCEPT
                 !.recs = GridRecords(sc, [m \in 1..NumMetrics |-> GetSlice(sc, m)], 1),
                 !.pos = sc.pos + 1],
        ret |-> TRUE]

\* mutant: the last timestamp is never scanned
ScanStopsEarly(sc, failAt) ==
  IF sc.pos + 1 >= Len(sc.ts)
  THEN [s |-> sc, ret |-> FALSE]
  ELSE IF failAt # 0
  THEN [s |-> [sc EXCEPT !.err = MetricNames[failAt]], ret |-> FALSE]
  ELSE [s |-> [sc EXCEPT
                 !.recs = GridRecords(sc, [m \in 1..NumMetrics |-> GetSlice(sc, m)], 1),
                 !.pos = sc.pos + 1],
        ret |-> TRUE]

\* Scan: failAt is the first of the six GetSlice calls that fails (0: none).
\* Returns the scanner after the call and the call's result.
Scan(sc, failAt) ==
  IF sc.pos >= Len(sc.ts)
  THEN [s |-> sc, ret |-> FALSE]
  ELSE IF failAt # 0
  THEN [s |-> [sc EXCEPT !.err = MetricNames[failAt]], ret |-> FALSE]
  ELSE [s |-> [sc EXCEPT
                 !.recs = GridRecords(sc, [m \in 1..NumMetrics |-> GetSlice(sc, m)], 1),
                 !.pos = sc.pos + 1],
        ret |-> TRUE]

\* mutant: the batch stays with the scanner
RecordsKeeps(sc) == [s |-> sc, ret |-> sc.recs]

\* Records: recs := s.recs; s.recs = nil; return recs
Records(sc) == [s |-> [sc EXCEPT !.recs = <<>>], ret |-> sc.recs]

\* Error: return s.err
Error(sc) == sc.err

\* ----------------------------------------------------- configurations
\* The scanner is driven over grids of up to MaxLat x MaxLon cells. The
\* pipeline sees a batch only through its length and its records' timestamp,
\* so it runs on files of one latitude row: batches of 0..MaxLon records.
Files == {File(T, A, O) : T \in 0..MaxT, A \in 0..MaxLat, O \in 1..MaxLon}
RowFiles == {File(T, 1, O) : T \in 0..MaxT, O \in 0..MaxLon}

NoCall == [op |-> "none", ok |-> FALSE, out |-> <<>>, pos |-> 0, fresh |-> FALSE]

\* The state once main has parsed its flags, built the client and the
\* scanner and started its goroutines. part_002 has no -limitHours flag and
\* main itself is the producer.
Start ==
  /\ ncOpen = TRUE
  /\ s = NewScanner(file, limitHours)
  /\ call = NoCall
  /\ prev = NoCall
  /\ prodPc = "scan"
  /\ returned = <<>>
  /\ extracted = <<>>
  /\ extractedClosed = FALSE
  /\ wk = [w \in 1..concurrency |-> [pc |-> "recv", recs |-> <<>>, n |-> 0, i |-> 0]]
  /\ loaded = <<>>
  /\ loadedClosed = FALSE
  /\ loaders = concurrency
  /\ agg = [pc |-> "start", n |-> 0, inserted |-> 0, total |-> 0]
  /\ done = <<>>
  /\ doneClosed = FALSE
  /\ mainPc = IF prog = "part_002" THEN "produce" ELSE "wait"
  /\ posted = [k \in 1..Len(s.ts) |-> <<>>]
  /\ logged = {}
  /\ panicked = FALSE
  /\ inserting = 0
  /\ closes = 0
  /\ counted = <<>>
  /\ taken = <<>>

ScannerInit ==
  /\ file \in Files
  /\ limitHours \in 0..MaxLimit
  /\ concurrency = 1
  /\ recsPerInsert = 1
  /\ prog = "part_003"
  /\ vmCli = CallNewClient(DefaultURL, concurrency, DefaultPrefix)
  /\ Start

\* several loaders; -limitHours is left at its default here and is varied
\* with one loader (SerialInit) and in the scanner alone (ScannerInit)
Init ==
  /\ file \in RowFiles
  /\ prog \in {"part_002", "part_003"}
  /\ limitHours = 0
  /\ concurrency \in 1..MaxWorkers
  /\ recsPerInsert \in 1..MaxLon   \* from one record per insert to a whole batch in one
  /\ vmCli = CallNewClient(DefaultURL, concurrency, DefaultPrefix)
  /\ Start

\* one loader, whole grids
SerialInit ==
  /\ file \in Files
  /\ prog \in {"part_002", "part_003"}
  /\ limitHours \in IF prog = "part_002" THEN {0} ELSE 0..MaxLimit
  /\ concurrency = 1
  /\ recsPerInsert \in 1..MaxChunk
  /\ vmCli = CallNewClient(DefaultURL, concurrency, DefaultPrefix)
  /\ Start

\* ---- files whose time values are at the ends of int32, around 0 and
\* around 613608, the hour of 1970-01-01T00:00:00Z
MinInt32 == -MaxInt32 - 1

Hours ==
  {MinInt32 + d : d \in 0..MaxHourStep} \cup {MaxInt32 - d : d \in 0..MaxHourStep}
    \cup {d : d \in -MaxHourStep..MaxHourStep}
    \cup {613608 + d : d \in -MaxHourStep..MaxHourStep}

EpochInit ==
  /\ \E h1 \in Hours : \E h2 \in Hours :
       file = [time |-> <<h1, h2>>, latitude |-> <<FileLat(1)>>, longitude |-> <<FileLon(1)>>]
  /\ prog = "part_003"
  /\ limitHours = 0
  /\ concurrency = 1
  /\ recsPerInsert = 1
  /\ vmCli = CallNewClient(DefaultURL, concurrency, DefaultPrefix)
  /\ Start

\* ---- main calling vm.NewClient with the flags it was given
RECURSIVE Texts(_)
Texts(n) ==
  IF n = 0 THEN {<<>>}
  ELSE LET shorter == Texts(n - 1)
       IN  shorter \cup {Append(x, c) : x \in {y \in shorter : Len(y) = n - 1},
                                        c \in PrefixChars}

Prefixes == Texts(MaxPrefixLen) \cup PrefixExamples

Paths == InfluxPaths \cup {CSVPath} \cup
         {"", "/", "/write/", "/WRITE", "/influx", "/api/v1/import",
          "/api/v1/import/prometheus"}

InsertURLs ==
  {[parses |-> TRUE, Path |-> p, Query |-> q] : p \in Paths, q \in {{}, {<<"db", "era5">>}}}
    \cup {[parses |-> FALSE, Path |-> "", Query |-> {}]}

NoClientCall ==
  [called |-> FALSE, insertURL |-> DefaultURL, maxConns |-> 0, metricPrefix |-> <<>>,
   ret |-> [cli |-> NilClient, err |-> "nil"]]

ClientInit ==
  /\ file = File(0, 0, 0)
  /\ prog = "part_003"
  /\ limitHours = 0
  /\ concurrency \in 1..MaxWorkers
  /\ recsPerInsert = 1
  /\ vmCli = NoClientCall
  /\ Start

\* vmCli, err := vm.NewClient(logger, *vmInsertURL, *concurrency, *metricPrefix)
MainNewClient ==
  /\ ~vmCli.called
  /\ \E u \in InsertURLs : \E text \in Prefixes :
       vmCli' = CallNewClient(u, concurrency, text)
  /\ UNCHANGED <<file, ncOpen, limitHours, concurrency, recsPerInsert, prog, s,
                 driverVars, pipeVars>>

ClientNext == MainNewClient

ClientSpec == ClientInit /\ [][ClientNext]_vars

\* ------------------------------------- a caller driving the Scanner
\* call.pos is s.pos when the call was made; call.fresh tells whether a
\* Scan had succeeded since the previous Records when the call was made.
FreshNow == IF call.op = "Scan" THEN call.ok \/ call.fresh
            ELSE IF call.op = "Records" THEN FALSE
            ELSE FALSE

DrvScan ==
  \E failAt \in 0..NumMetrics :
    LET r == Scan(s, failAt) IN
    /\ s' = r.s
    /\ prev' = call
    /\ call' = [op |-> "Scan", ok |-> r.ret, out |-> <<>>, pos |-> s.pos, fresh |-> FreshNow]
    /\ UNCHANGED <<file, ncOpen, limitHours, flagVars, pipeVars>>

DrvRecords ==
  LET r == Records(s) IN
  /\ s' = r.s
  /\ prev' = call
  /\ call' = [op |-> "Records", ok |-> TRUE, out |-> r.ret, pos |-> s.pos, fresh |-> FreshNow]
  /\ UNCHANGED <<file, ncOpen, limitHours, flagVars, pipeVars>>

ScannerNext == DrvScan \/ DrvRecords

ScannerSpec == ScannerInit /\ [][ScannerNext]_vars

EpochSpec == EpochInit /\ [][ScannerNext]_vars

\* ------------------------------------------------------ the pipeline
\* When main returns the process exits and every goroutine stops with it.
Running == mainPc # "exited"

confVars == <<file, limitHours, concurrency, recsPerInsert, prog, vmCli, call, prev>>

\* Channels. A channel holds the values offered to it and not yet received,
\* each with its sender, oldest first. A sender is blocked while more than
\* cap values are held up to and including its own; with cap 0 (unbuffered)
\* that is until a receiver takes its value. A receive takes the oldest value
\* and lets the sender of value cap + 1 go on.
SendBlocks(ch, cap) == Len(ch) + 1 > cap
Freed(ch, cap) == IF Len(ch) > cap THEN {ch[cap + 1].from} ELSE {}
\* close(ch) panics on a closed channel; so does a sender blocked on ch
ClosePanics(ch, cap, closed) == closed \/ Len(ch) > cap

\* mutant: a receive leaves the value in the channel
RecvPeek(ch) == ch

\* what a channel holds once its oldest value has been received
Recv(ch) == Tail(ch)

\* a loader between two batches: the locals of the iteration are gone
Idle == [pc |-> "recv", recs |-> <<>>, n |-> 0, i |-> 0]

\* ---- the producer: for s.Scan() { extracted <- s.Records() }
ProducerScan ==
  /\ Running
  /\ prodPc = "scan"
  /\ \E failAt \in 0..NumMetrics :
       LET sc == Scan(s, failAt) IN
       IF sc.ret
       THEN LET rs == Records(sc.s) IN
            /\ s' = rs.s
            /\ returned' = Append(returned, [idx |-> s.pos, n |-> Len(rs.ret)])
            /\ extracted' = Append(extracted, [from |-> "producer", recs |-> rs.ret])
            /\ panicked' = (panicked \/ extractedClosed)
            /\ prodPc' = IF SendBlocks(extracted, ExtractedCap) THEN "send" ELSE "scan"
       ELSE /\ s' = sc.s
            /\ prodPc' = IF prog = "part_002" THEN "close" ELSE "error"
            /\ UNCHANGED <<returned, extracted, panicked>>
  /\ UNCHANGED <<confVars, ncOpen, extractedClosed, wk, loaded, loadedClosed, loaders,
                 agg, done, doneClosed, mainPc, posted, logged,
                 taken,
                 counted,
                 closes,
                 inserting>>

\* part_003: if s.Error() != nil { logger.Error(...) }
ProducerError ==
  /\ Running
  /\ prodPc = "error"
  /\ logged' = IF Error(s) # "nil" THEN logged \cup {"could not read ERA5 records"}
               ELSE logged
  /\ prodPc' = "close"
  /\ UNCHANGED <<confVars, ncOpen, s, returned, extracted, extractedClosed, wk, loaded,
                 loadedClosed, loaders, agg, done, doneClosed, mainPc, posted, panicked,
                 taken,
                 counted,
                 closes,
                 inserting>>

\* close(extracted); in part_002 main goes on to wg.Wait()
ProducerClose ==
  /\ Running
  /\ prodPc = "close"
  /\ extractedClosed' = TRUE
  /\ panicked' = (panicked \/ ClosePanics(extracted, ExtractedCap, extractedClosed))
  /\ prodPc' = "done"
  /\ mainPc' = IF prog = "part_002" THEN "wait" ELSE mainPc
  /\ UNCHANGED <<confVars, ncOpen, s, returned, extracted, wk, loaded, loadedClosed,
                 loaders, agg, done, doneClosed, posted, logged,
                 taken,
                 counted,
                 closes,
                 inserting>>

\* ---- the loaders
\* mutant: every chunk after the first begins one record early
ChunkOverlap(recs, i, c) ==
  LET begin == IF i > 0 THEN i - 1 ELSE 0
      limit == IF i + c > Len(recs) THEN Len(recs) ELSE i + c
  IN  SubSeq(recs, begin + 1, limit)

\* recs[begin:limit] with begin := i, limit := begin + recsPerInsert, capped at n
Chunk(recs, i, c) ==
  LET begin == i
      limit == IF begin + c > Len(recs) THEN Len(recs) ELSE begin + c
  IN  SubSeq(recs, begin + 1, limit)

\* the index in s.ts of the timestamp a POST body's records carry
TimeIndex(body) == CHOOSE k \in 1..Len(s.ts) : s.ts[k] = body[1].Timestamp

\* Client.Insert, up to the blocking POST: the body goes out. The text
\* encoding of the records is not modelled: a body is its records.
Post(body) == [posted EXCEPT ![TimeIndex(body)] = Append(@, body)]

\* Client.Insert, from the POST's return: what it logs
InsertResults == {"transport error", "204", "500"}
InsertLog(res) ==
  IF res = "transport error" THEN {"Could not post data"}
  ELSE IF res # "204" THEN {"Unexpected status"}
  ELSE {}

\* mutant: a failed Insert is tried again
NextIRetry(i, c, res) == IF res = "204" THEN i + c ELSE i

\* the loop's step i += recsPerInsert once Insert has returned with res
NextI(i, c, res) == i + c

\* mutant: the count of the first chunk, not of the batch
ReportChunk(l) == IF l.n > recsPerInsert THEN recsPerInsert ELSE l.n

\* the count a loader sends once the loop is over: loaded <- n
Report(l) == l.n

\* the Insert calls the loop test begins: one if i < n
Begun(l) == IF l.i < l.n THEN 1 ELSE 0

\* mutant: the loop goes on without waiting for Insert to return
InsertNotAwaited(open) == open

\* the Insert calls still open once the one a loader waited for has returned
InsertReturned(open) == open - 1

\* the loop test i < n of loader w with locals l: the next Insert call, or
\* after the last one the send loaded <- n
LoaderLoop(w, l) ==
  IF l.i < l.n
  THEN /\ posted' = Post(Chunk(l.recs, l.i, recsPerInsert))
       /\ wk' = [wk EXCEPT ![w] = [l EXCEPT !.pc = "insert"]]
       /\ UNCHANGED <<loaded, panicked>>
  ELSE /\ loaded' = Append(loaded, [from |-> w, n |-> Report(l)])
       /\ panicked' = (panicked \/ loadedClosed)
       /\ wk' = [wk EXCEPT ![w] = IF SendBlocks(loaded, LoadedCap)
                                  THEN [l EXCEPT !.pc = "send"] ELSE Idle]
       /\ UNCHANGED posted

\* for recs := range extracted: a batch arrives
LoaderRecv(w) ==
  /\ Running
  /\ wk[w].pc = "recv"
  /\ extracted # <<>>
  /\ extracted' = Recv(extracted)
  /\ taken' = Append(taken, Head(extracted).recs)
  /\ prodPc' = IF "producer" \in Freed(extracted, ExtractedCap) THEN "scan" ELSE prodPc
  /\ LET recs == Head(extracted).recs
         l == [pc |-> "recv", recs |-> recs, n |-> Len(recs), i |-> 0]
     IN  /\ LoaderLoop(w, l)
         /\ inserting' = inserting + Begun(l)
  /\ UNCHANGED <<confVars, ncOpen, s, returned, extractedClosed, loadedClosed,
                 loaders, agg, done, doneClosed, mainPc, logged,
                 counted,
                 closes>>

\* vmCli.Insert returns; i += recsPerInsert
LoaderInsertReturn(w) ==
  /\ Running
  /\ wk[w].pc = "insert"
  /\ \E res \in InsertResults :
       /\ logged' = logged \cup InsertLog(res)
       /\ LET l == [wk[w] EXCEPT !.i = NextI(@, recsPerInsert, res)]
          IN  /\ LoaderLoop(w, l)
              /\ inserting' = InsertReturned(inserting) + Begun(l)
  /\ UNCHANGED <<confVars, ncOpen, s, prodPc, returned, extracted, extractedClosed,
                 loadedClosed, loaders, agg, done, doneClosed, mainPc,
                 taken,
                 counted,
                 closes>>

\* extracted is closed and empty: the range loop ends; loaders.Done()
LoaderDone(w) ==
  /\ Running
  /\ wk[w].pc = "recv"
  /\ extracted = <<>>
  /\ extractedClosed
  /\ wk' = [wk EXCEPT ![w].pc = "done"]
  /\ loaders' = loaders - 1
  /\ UNCHANGED <<confVars, ncOpen, s, prodPc, returned, extracted, extractedClosed,
                 loaded, loadedClosed, agg, done, doneClosed, mainPc, posted, logged,
                 panicked,
                 taken,
                 counted,
                 closes,
                 inserting>>

\* ---- the progress goroutine
\* total = float64(s.TotalRecCount())
ProgressStart ==
  /\ Running
  /\ agg.pc = "start"
  /\ agg' = [agg EXCEPT !.pc = "recv", !.total = TotalRecCount(s)]
  /\ UNCHANGED <<confVars, ncOpen, s, prodPc, returned, extracted, extractedClosed, wk,
                 loaded, loadedClosed, loaders, done, doneClosed, mainPc, posted,
                 logged, panicked,
                 taken,
                 counted,
                 closes,
                 inserting>>

\* for n := range loaded: a count arrives, and its sender goes on
ProgressRecv ==
  /\ Running
  /\ agg.pc = "recv"
  /\ loaded # <<>>
  /\ agg' = [agg EXCEPT !.pc = "add", !.n = Head(loaded).n]
  /\ loaded' = Recv(loaded)
  /\ counted' = Append(counted, Head(loaded).n)
  /\ wk' = [w \in 1..concurrency |->
              IF w \in Freed(loaded, LoadedCap) THEN Idle ELSE wk[w]]
  /\ UNCHANGED <<confVars, ncOpen, s, prodPc, returned, extracted, extractedClosed,
                 loadedClosed, loaders, done, doneClosed, mainPc, posted, logged,
                 panicked,
                 taken,
                 closes,
                 inserting>>

\* inserted += float64(n), and the progress line
ProgressAdd ==
  /\ Running
  /\ agg.pc = "add"
  /\ agg' = [agg EXCEPT !.pc = "recv", !.inserted = @ + agg.n]
  /\ UNCHANGED <<confVars, ncOpen, s, prodPc, returned, extracted, extractedClosed, wk,
                 loaded, loadedClosed, loaders, done, doneClosed, mainPc, posted,
                 logged, panicked,
                 taken,
                 counted,
                 closes,
                 inserting>>

\* loaded is closed and empty: the range loop ends; part_003: done <- true
ProgressEnd ==
  /\ Running
  /\ agg.pc = "recv"
  /\ loaded = <<>>
  /\ loadedClosed
  /\ IF prog = "part_002"
     THEN /\ agg' = [agg EXCEPT !.pc = "done"]
          /\ UNCHANGED <<done, panicked>>
     ELSE /\ agg' = [agg EXCEPT !.pc = IF SendBlocks(done, DoneCap) THEN "send" ELSE "done"]
          /\ done' = Append(done, [from |-> "progress", v |-> TRUE])
          /\ panicked' = (panicked \/ doneClosed)
  /\ UNCHANGED <<confVars, ncOpen, s, prodPc, returned, extracted, extractedClosed, wk,
                 loaded, loadedClosed, loaders, doneClosed, mainPc, posted, logged,
                 taken,
                 counted,
                 closes,
                 inserting>>

\* ---- main
\* loaders.Wait() returns
MainWait ==
  /\ mainPc = "wait"
  /\ loaders = 0
  /\ mainPc' = "closeLoaded"
  /\ UNCHANGED <<confVars, ncOpen, s, prodPc, returned, extracted, extractedClosed, wk,
                 loaded, loadedClosed, loaders, agg, done, doneClosed, posted, logged,
                 panicked,
                 taken,
                 counted,
                 closes,
                 inserting>>

\* mutant: main does not wait for the progress goroutine
AfterCloseLoadedReturn(p) == "return"

\* what main does after close(loaded): part_003 receives from done,
\* part_002 returns
AfterCloseLoaded(p) == IF p = "part_002" THEN "return" ELSE "recvDone"

\* close(loaded)
MainCloseLoaded ==
  /\ mainPc = "closeLoaded"
  /\ loadedClosed' = TRUE
  /\ panicked' = (panicked \/ ClosePanics(loaded, LoadedCap, loadedClosed))
  /\ mainPc' = AfterCloseLoaded(prog)
  /\ UNCHANGED <<confVars, ncOpen, s, prodPc, returned, extracted, extractedClosed, wk,
                 loaded, loaders, agg, done, doneClosed, posted, logged,
                 taken,
                 counted,
                 closes,
                 inserting>>

\* part_003: <-done, and the progress goroutine goes on to its end
MainRecvDone ==
  /\ mainPc = "recvDone"
  /\ done # <<>>
  /\ done' = Recv(done)
  /\ agg' = IF "progress" \in Freed(done, DoneCap) THEN [agg EXCEPT !.pc = "done"] ELSE agg
  /\ mainPc' = "closeDone"
  /\ UNCHANGED <<confVars, ncOpen, s, prodPc, returned, extracted, extractedClosed, wk,
                 loaded, loadedClosed, loaders, doneClosed, posted, logged, panicked,
                 taken,
                 counted,
                 closes,
                 inserting>>

\* part_003: close(done)
MainCloseDone ==
  /\ mainPc = "closeDone"
  /\ doneClosed' = TRUE
  /\ panicked' = (panicked \/ ClosePanics(done, DoneCap, doneClosed))
  /\ mainPc' = "return"
  /\ UNCHANGED <<confVars, ncOpen, s, prodPc, returned, extracted, extractedClosed, wk,
                 loaded, loadedClosed, loaders, agg, done, posted, logged,
                 taken,
                 counted,
                 closes,
                 inserting>>

\* main returns: the deferred s.Close() runs
MainClose ==
  /\ mainPc = "return"
  /\ ncOpen' = FALSE
  /\ closes' = closes + 1
  /\ mainPc' = "exit"
  /\ UNCHANGED <<confVars, s, prodPc, returned, extracted, extractedClosed, wk, loaded,
                 loadedClosed, loaders, agg, done, doneClosed, posted, logged, panicked,
                 taken,
                 counted,
                 inserting>>

\* the process exits
MainExit ==
  /\ mainPc = "exit"
  /\ mainPc' = "exited"
  /\ UNCHANGED <<confVars, ncOpen, s, prodPc, returned, extracted, extractedClosed, wk,
                 loaded, loadedClosed, loaders, agg, done, doneClosed, posted, logged,
                 panicked,
                 taken,
                 counted,
                 closes,
                 inserting>>

Producer == ProducerScan \/ ProducerError \/ ProducerClose
Loader(w) == LoaderRecv(w) \/ LoaderInsertReturn(w) \/ LoaderDone(w)
Progress == ProgressStart \/ ProgressRecv \/ ProgressAdd \/ ProgressEnd
Main == MainWait \/ MainCloseLoaded \/ MainRecvDone \/ MainCloseDone \/ MainClose \/ MainExit

Next == Producer \/ (\E w \in 1..concurrency : Loader(w)) \/ Progress \/ Main

Spec == Init /\ [][Next]_vars

SerialSpec == SerialInit /\ [][Next]_vars

\* Go runs every goroutine that can run, and every Insert call returns.
FairSpec ==
  /\ Spec
  /\ WF_vars(Producer)
  /\ \A w \in 1..MaxWorkers : WF_vars(w \in 1..concurrency /\ Loader(w))
  /\ WF_vars(Progress)
  /\ WF_vars(Main)

\* ======================================================== the claims
Loaders == 1..concurrency

RECURSIVE SumN(_)
SumN(q) == IF q = <<>> THEN 0 ELSE Head(q).n + SumN(Tail(q))

RECURSIVE Flatten(_)
Flatten(q) == IF q = <<>> THEN <<>> ELSE Head(q) \o Flatten(Tail(q))

\* the counts the progress goroutine has received from loaded
Received == agg.inserted + (IF agg.pc = "add" THEN agg.n ELSE 0)

\* the batches returned by s.Records() whose count the progress goroutine
\* has not received: the one on offer, and those the loaders hold
Holding == {w \in Loaders : wk[w].pc \in {"insert", "send"}}
InFlight == Len(extracted) + Cardinality(Holding)

\* ---- C1
\* C1: once the process has exited, the counts received by the progress
\* goroutine add up to the number of records the producer's s.Records()
\* calls returned, for any number of loaders and any interleaving.
CountConservation == mainPc = "exited" => Received = SumN(returned)

CountConservationWitness ==
  /\ mainPc = "exited"
  /\ concurrency > 1
  /\ Len(returned) > 1
  /\ SumN(returned) > Len(returned)
  /\ Received = SumN(returned)

\* ---- C2
\* C2: the process returns only when production has ended, every batch
\* emitted has been consumed by a loader and every count has been added up
\* by the progress goroutine.
ReturnsWhenDone ==
  mainPc = "exited" =>
    /\ prodPc = "done"
    /\ extracted = <<>>
    /\ Holding = {}
    /\ loaded = <<>>
    /\ agg.inserted = SumN(returned)

\* the pipeline never gets stuck before main has exited
NeverStuck == mainPc = "exited" \/ ENABLED Next

\* under fair scheduling main exits
Terminates == <>(mainPc = "exited")

\* ---- C3
\* C3: at most concurrency + 1 batches are in flight, and the producer is
\* not back at s.Scan() while a batch it offered is still to be accepted.
Backpressure ==
  /\ InFlight <= concurrency + 1
  /\ Len(extracted) <= 1
  /\ prodPc = "scan" => extracted = <<>>

BackpressureWitness ==
  /\ InFlight = concurrency + 1
  /\ Holding = Loaders
  /\ prodPc = "send"

\* ---- what the file holds, by index arithmetic
\* record number i * len(longitudes) + j of the batch of time index k
\* (all three 0-based)
CellRecord(k, i, j) ==
  [Timestamp          |-> s.ts[k + 1],
   Latitude           |-> file.latitude[i + 1],
   Longitude          |-> file.longitude[j + 1],
   ZonalWind10M       |-> FileValue(1, k + 1, i + 1, j + 1),
   MeridionalWind10M  |-> FileValue(2, k + 1, i + 1, j + 1),
   Temperature2M      |-> FileValue(3, k + 1, i + 1, j + 1),
   Snowfall           |-> FileValue(4, k + 1, i + 1, j + 1),
   TotalCloudCover    |-> FileValue(5, k + 1, i + 1, j + 1),
   TotalPrecipitation |-> FileValue(6, k + 1, i + 1, j + 1)]

GridSize == Len(file.latitude) * Len(file.longitude)

\* the batch of time index k (0-based)
ExpectedBatch(k) ==
  [q \in 1..GridSize |->
     CellRecord(k, (q - 1) \div Len(file.longitude), (q - 1) % Len(file.longitude))]

Ceil(n, c) == (n + c - 1) \div c

\* chunk number q (1-based) of recs cut into chunks of c
Sub(recs, q, c) == SubSeq(recs, (q - 1) * c + 1, Min(q * c, Len(recs)))

\* the POST bodies sent so far for the batch a loader holds
SentFor(l) == IF l.recs = <<>> THEN <<>> ELSE posted[TimeIndex(l.recs)]

LoopOver == prodPc \in {"error", "close", "done"}

\* ---- C4
\* C4: when a loader has made all Insert calls for a batch of n records with
\* chunk size c, it has made ceil(n/c) calls, call q with records
\* [(q-1)c, min(qc, n)) of the batch, in that order: every chunk has c
\* records but the last, which has n - c*(ceil(n/c)-1), and the chunks put
\* end to end are the batch.
ChunkSplitting ==
  \A w \in Loaders :
    wk[w].pc = "send" =>
      LET l == wk[w]
          c == recsPerInsert
          sent == SentFor(l)
      IN  /\ l.n = Len(l.recs)
          /\ Len(sent) = Ceil(l.n, c)
          /\ \A q \in 1..Len(sent) : sent[q] = Sub(l.recs, q, c)
          /\ \A q \in 1..(Len(sent) - 1) : Len(sent[q]) = c
          /\ Len(sent) > 0 => Len(sent[Len(sent)]) = l.n - c * (Ceil(l.n, c) - 1)
          /\ Flatten(sent) = l.recs
          /\ l.n = 0 => \A k \in 1..Len(s.ts) : posted[k] = <<>>

ChunkSplittingWitness ==
  /\ wk[1].pc = "send"
  /\ wk[1].n > recsPerInsert
  /\ wk[1].n % recsPerInsert # 0
  /\ Len(SentFor(wk[1])) = 2
  /\ Len(SentFor(wk[1])[2]) < recsPerInsert

\* ---- C5
\* C5: whatever the Insert calls return, the bodies posted for the batch a
\* loader holds are the chunks of the batch up to the one in hand, each
\* once and in order; the count it then offers is the batch's length; at
\* exit every batch returned has been posted whole and counted; and the
\* pipeline is never stuck before that.
BestEffortInsert ==
  /\ \A w \in Holding :
       LET l == wk[w]
           c == recsPerInsert
           sent == SentFor(l)
           issued == IF l.pc = "insert" THEN (l.i \div c) + 1 ELSE Ceil(l.n, c)
       IN  /\ Len(sent) = issued
           /\ \A q \in 1..Len(sent) : sent[q] = Sub(l.recs, q, c)
  /\ \A x \in 1..Len(loaded) : loaded[x].n = Len(wk[loaded[x].from].recs)
  /\ mainPc = "exited" =>
       /\ \A q \in 1..Len(returned) :
            Len(Flatten(posted[returned[q].idx + 1])) = returned[q].n
       /\ Received = SumN(returned)
  /\ mainPc = "exited" \/ ENABLED Next

InsertFailures == {"Could not post data", "Unexpected status"}

BestEffortInsertWitness ==
  /\ mainPc = "exited"
  /\ InsertFailures \subseteq logged
  /\ Len(returned) > 1
  /\ SumN(returned) > Len(returned)
  /\ recsPerInsert = 1

\* ---- C6
\* C6: the producer leaves its loop before the last timestamp only on a
\* read failure, which s.Error() then returns; if the failure came while
\* scanning time index k, exactly the batches of 0..k-1 have been returned
\* and no more follow; at exit extracted is closed, each of those batches
\* has been posted whole and counted, and nothing was posted for a later
\* index; the pipeline is never stuck before that.
ScanErrorEndsProduction ==
  /\ (LoopOver /\ s.pos < Len(s.ts)) => Error(s) # "nil"
  /\ s.err # "nil" =>
       /\ LoopOver
       /\ s.pos < Len(s.ts)
       /\ Len(returned) = s.pos
       /\ \A q \in 1..Len(returned) : returned[q].idx = q - 1
       /\ prog = "part_003" /\ prodPc # "error" => "could not read ERA5 records" \in logged
  /\ (mainPc = "exited" /\ s.err # "nil") =>
       /\ extractedClosed
       /\ \A k \in 1..Len(s.ts) :
            Flatten(posted[k]) = IF k <= s.pos THEN ExpectedBatch(k - 1) ELSE <<>>
       /\ Received = SumN(returned)
  /\ mainPc = "exited" \/ ENABLED Next

ScanErrorEndsProductionWitness ==
  /\ mainPc = "exited"
  /\ Error(s) # "nil"
  /\ s.pos = 1
  /\ Len(s.ts) = 2
  /\ Flatten(posted[1]) = ExpectedBatch(0)
  /\ Len(ExpectedBatch(0)) > 1
  /\ concurrency > 1

\* ---- C7
\* C7: a Records call right after a successful Scan returns len(la) * len(lo)
\* records, record i*len(lo)+j having the timestamp ts[pos] of the pos at
\* the Scan, latitude la[i], longitude lo[j] and the six values at [i][j] of
\* that time's slices; and the Scan moved pos on by one.
ScanYieldsGrid ==
  (call.op = "Records" /\ prev.op = "Scan" /\ prev.ok) =>
    /\ Len(call.out) = Len(s.la) * Len(s.lo)
    /\ \A i \in 0..(Len(s.la) - 1) : \A j \in 0..(Len(s.lo) - 1) :
         /\ call.out[i * Len(s.lo) + j + 1] = CellRecord(prev.pos, i, j)
         /\ call.out[i * Len(s.lo) + j + 1].Timestamp = s.ts[prev.pos + 1]
         /\ call.out[i * Len(s.lo) + j + 1].Latitude = s.la[i + 1]
         /\ call.out[i * Len(s.lo) + j + 1].Longitude = s.lo[j + 1]
    /\ call.pos = prev.pos + 1
    /\ s.pos = prev.pos + 1

ScanYieldsGridWitness ==
  /\ call.op = "Records"
  /\ prev.op = "Scan"
  /\ prev.ok
  /\ prev.pos = 1
  /\ Len(s.la) = 2
  /\ Len(s.lo) = 2
  /\ Len(call.out) = 4

\* ---- C8
\* C8: a Records call made when no Scan has succeeded since the previous
\* Records call returns nothing; so of two Records calls in a row the
\* second returns nothing.
RecordsHandsOutOnce ==
  /\ (call.op = "Records" /\ ~call.fresh) => call.out = <<>>
  /\ (call.op = "Records" /\ prev.op = "Records") => call.out = <<>>

RecordsHandsOutOnceWitness ==
  /\ call.op = "Records"
  /\ prev.op = "Records"
  /\ prev.out # <<>>
  /\ call.out = <<>>

\* ---- C9
\* C9: with no limit, for a file of T timestamps, A latitudes and O
\* longitudes TotalRecCount is T*A*O*6 throughout; Scan never returns true
\* more than T times; and when the producer's loop has ended without a read
\* failure, Scan has returned true T times, Records has returned T batches
\* of T*A*O records in all, and any further Scan returns false.
ScanUntilExhausted ==
  limitHours = 0 =>
    LET T == Len(file.time) IN
    /\ TotalRecCount(s) = T * GridSize * 6
    /\ agg.pc # "start" => agg.total = T * GridSize * 6
    /\ Len(returned) <= T
    /\ (LoopOver /\ s.err = "nil") =>
         /\ Len(returned) = T
         /\ SumN(returned) = T * GridSize
         /\ \A q \in 1..T : returned[q].n = GridSize
         /\ \A failAt \in 0..NumMetrics : ~Scan(s, failAt).ret

ScanUntilExhaustedWitness ==
  /\ limitHours = 0
  /\ prodPc = "done"
  /\ s.err = "nil"
  /\ Len(returned) = 2
  /\ SumN(returned) = 8
  /\ TotalRecCount(s) = 48

\* ---- C10
\* C10: with a limit L > 0 on a file of T timestamps the scanner holds the
\* first min(L, T) timestamps only; Scan succeeds for the time indexes
\* 0, 1, ... in that order and never for one from min(L, T) on; and when the
\* producer's loop has ended without a read failure it has succeeded
\* min(L, T) times.
TimeLimit ==
  limitHours > 0 =>
    LET M == Min(limitHours, Len(file.time)) IN
    /\ Len(s.ts) = M
    /\ \A k \in 1..M : s.ts[k] = EpochMillis(file.time[k])
    /\ s.pos <= M
    /\ \A q \in 1..Len(returned) : returned[q].idx = q - 1 /\ returned[q].idx < M
    /\ (LoopOver /\ s.err = "nil") => Len(returned) = M

TimeLimitWitness ==
  /\ limitHours = 1
  /\ Len(file.time) = 2
  /\ prodPc = "done"
  /\ s.err = "nil"
  /\ Len(returned) = 1

\* ---- C11
\* C11: the batches received from extracted so far are, in the order
\* received, the batches of the time indexes 0, 1, 2, ... as s.Records()
\* returned them; every batch returned has been received once or is still
\* on offer; and no two loaders hold the same batch, whatever the number of
\* loaders and wherever each of them is in its work.
HandOff ==
  /\ Len(taken) + Len(extracted) = Len(returned)
  /\ \A q \in 1..Len(taken) :
       /\ returned[q].idx = q - 1
       /\ taken[q] = ExpectedBatch(q - 1)
  /\ \A q \in 1..Len(extracted) :
       extracted[q].recs = ExpectedBatch(returned[Len(taken) + q].idx)
  /\ \A w \in Holding : \E q \in 1..Len(taken) : taken[q] = wk[w].recs
  /\ \A v \in Holding : \A w \in Holding :
       (v # w /\ wk[v].recs # <<>>) => wk[v].recs # wk[w].recs

HandOffWitness ==
  /\ Holding = {1, 2}
  /\ Len(taken) = 2
  /\ wk[2].recs = taken[1]
  /\ wk[1].recs = taken[2]
  /\ taken[1] # taken[2]
  /\ Len(taken[1]) > 1

\* ---- C12
\* C12: NewClient returns an error and no Client when the URL does not
\* parse or its path is not registered; with a URL that parses, a
\* registered path and a prefix of letters and digits it returns a Client
\* and no error, with the line protocol encoder for the four write paths and
\* the CSV encoder for /api/v1/import/csv.
RegisteredPaths ==
  {"/influx/write", "/influx/api/v2/write", "/write", "/api/v2/write",
   "/api/v1/import/csv"}

Alphanumeric(text) ==
  /\ text # <<>>
  /\ {text[i] : i \in 1..Len(text)} \subseteq LowerCase \cup UpperCase \cup Digits

EndpointRegistry ==
  vmCli.called =>
    LET u == vmCli.insertURL
        r == vmCli.ret
    IN  /\ (r.cli = NilClient) # (r.err = "nil")
        /\ ~(u.parses /\ u.Path \in RegisteredPaths) =>
             r.cli = NilClient /\ r.err # "nil"
        /\ (u.parses /\ u.Path \in RegisteredPaths /\ Alphanumeric(vmCli.metricPrefix)) =>
             /\ r.err = "nil"
             /\ r.cli # NilClient
             /\ r.cli[1].recToText =
                  IF u.Path = "/api/v1/import/csv" THEN "recToCSV" ELSE "recToInfluxDB"
             /\ r.cli[1].insertURL.Path = u.Path

EndpointRegistryWitness ==
  /\ vmCli.called
  /\ vmCli.insertURL.Path = "/api/v1/import/csv"
  /\ vmCli.ret.err = "nil"
  /\ vmCli.ret.cli # NilClient
  /\ vmCli.metricPrefix = <<"a", "Z", "5">>

\* ---- C13
\* C13: with a URL that parses and a registered path, NewClient returns a
\* Client exactly when the prefix is one or more of the characters A-Z, a-z,
\* 0-9; whatever the URL, it returns an error and no Client for any other
\* prefix. It rejects "era-5", "era 5" and "", and accepts "era5" and
\* "ERA5x1".
PrefixValidation ==
  vmCli.called =>
    LET u == vmCli.insertURL
        r == vmCli.ret
        text == vmCli.metricPrefix
    IN  /\ ~Alphanumeric(text) => r.cli = NilClient /\ r.err # "nil"
        /\ (u.parses /\ u.Path \in RegisteredPaths) =>
             /\ (r.cli # NilClient) = Alphanumeric(text)
             /\ (r.err = "nil") = Alphanumeric(text)
             /\ text \in {<<"e", "r", "a", "-", "5">>, <<"e", "r", "a", " ", "5">>, <<>>} =>
                  r.cli = NilClient /\ r.err # "nil"
             /\ text \in {<<"e", "r", "a", "5">>, <<"E", "R", "A", "5", "x", "1">>} =>
                  r.cli # NilClient /\ r.err = "nil"
             /\ r.cli # NilClient => r.cli[1].metricPrefix = text

PrefixValidationWitness ==
  /\ vmCli.called
  /\ vmCli.insertURL = DefaultURL
  /\ vmCli.metricPrefix = <<"e", "r", "a", "-", "5">>
  /\ vmCli.ret.cli = NilClient
  /\ vmCli.ret.err # "nil"

\* ---- C14
\* C14: for every time value h of the file, an int32, the scanner's
\* timestamp is 3600000 * h - 2208988800000; h * 3600, that plus
\* unixSecs1900 and that times 1000 are all within int64, so nothing
\* overflows; h = 0 gives -2208988800000; and of two time values the
\* smaller one has the smaller timestamp.
InInt64(x) == ~Less64(x, MinInt64) /\ ~Less64(MaxInt64, x)

\* 360 * h * 10^4 - 2208988800000
ExactMillis(h) ==
  LET g == Int64(h)
  IN  Carry(<<0, 360 * g[1] - 8880, 360 * g[2] - 2089,
              360 * g[3] + 3600000 * g[4] - 2>>)

EpochConversion ==
  /\ Len(s.ts) = Len(file.time)
  /\ \A k \in 1..Len(file.time) :
       LET h == file.time[k] IN
       /\ s.ts[k] = ExactMillis(h)
       /\ InInt64(Mul64(Int64(h), 3600))
       /\ InInt64(Add64(Mul64(Int64(h), 3600), unixSecs1900))
       /\ InInt64(s.ts[k])
       /\ h = 0 => s.ts[k] = <<0, 1120, 7910, -3>>
       /\ h = 613608 => s.ts[k] = <<0, 0, 0, 0>>
  /\ \A a \in 1..Len(file.time) : \A b \in 1..Len(file.time) :
       /\ file.time[a] < file.time[b] => Less64(s.ts[a], s.ts[b])
       /\ file.time[a] = file.time[b] => s.ts[a] = s.ts[b]
  /\ \A q \in 1..Len(call.out) : call.out[q].Timestamp = ExactMillis(file.time[call.pos])

EpochConversionWitness ==
  /\ file.time = <<MaxInt32, MinInt32>>
  /\ call.op = "Records"
  /\ call.pos = 2
  /\ call.out # <<>>
  /\ Less64(call.out[1].Timestamp, s.ts[1])

\* ---- C15
\* C15: extracted is closed only once the producer's last batch has been
\* received; loaded is closed only once every loader has left its loop and
\* called Done; main returns only once the progress goroutine has received
\* every count and left its loop; and nothing is sent on, and nothing closes,
\* a closed channel.
ClosedInOrder ==
  /\ extractedClosed => prodPc = "done" /\ extracted = <<>>
  /\ loadedClosed => loaders = 0 /\ loaded = <<>> /\ \A w \in Loaders : wk[w].pc = "done"
  /\ doneClosed => done = <<>> /\ agg.pc = "done"
  /\ ~panicked

ShutdownOrder ==
  /\ ClosedInOrder
  /\ mainPc \in {"return", "exit", "exited"} =>
       /\ loadedClosed
       /\ agg.pc = "done"

\* ---- C16
\* C16: a loader that has a count on offer has exactly one on offer, the
\* length of the batch it holds, and has made, and seen return, every
\* Insert call for that batch; a loader that is elsewhere has none on
\* offer; every batch taken has had exactly one count sent for it unless
\* its loader is still inserting; and every count received is a whole
\* batch's length.
OffersOf(w) == {x \in 1..Len(loaded) : loaded[x].from = w}

PerBatchReport ==
  /\ \A w \in Loaders :
       IF wk[w].pc = "send"
       THEN /\ Cardinality(OffersOf(w)) = 1
            /\ \A x \in OffersOf(w) : loaded[x].n = Len(wk[w].recs)
            /\ wk[w].i >= Len(wk[w].recs)
            /\ Len(SentFor(wk[w])) = Ceil(Len(wk[w].recs), recsPerInsert)
       ELSE OffersOf(w) = {}
  /\ Len(counted) + Len(loaded) + Cardinality({w \in Loaders : wk[w].pc = "insert"})
       = Len(taken)
  /\ \A q \in 1..Len(counted) : counted[q] = Len(taken[q])
  /\ \A q \in 1..Len(counted) : counted[q] = GridSize

PerBatchReportWitness ==
  /\ concurrency = 2
  /\ recsPerInsert = 1
  /\ wk[1].pc = "send"
  /\ wk[1].n = 2
  /\ wk[2].pc = "insert"
  /\ Len(counted) = 0
  /\ Len(taken) = 2

\* ---- C17
\* C17: a Scan call made right after a Scan call that failed on a slice
\* read (it returned false with pos short of len(ts)) returns false and
\* leaves pos where it was, and the error recorded stays.
StickyError ==
  (call.op = "Scan" /\ prev.op = "Scan" /\ ~prev.ok /\ prev.pos < Len(s.ts)) =>
    /\ ~call.ok
    /\ s.pos = prev.pos
    /\ s.err # "nil"

\* ---- C18
\* C18: in part_003 s.Close() is called at most once, and once by the time
\* the process exits; when it is called the producer has made its last
\* Scan, Records and Error call, having scanned every timestamp or met a
\* read failure, and the progress goroutine has made its TotalRecCount
\* call.
ScannerLifecycle ==
  prog = "part_003" =>
    /\ closes <= 1
    /\ ncOpen = (closes = 0)
    /\ mainPc = "exited" => closes = 1
    /\ closes > 0 =>
         /\ prodPc = "done"
         /\ agg.pc \notin {"start", "recv", "add"}
         /\ s.pos = Len(s.ts) \/ s.err # "nil"

ScannerLifecycleWitness ==
  /\ prog = "part_003"
  /\ mainPc = "exited"
  /\ closes = 1
  /\ ~ncOpen
  /\ s.err # "nil"
  /\ Len(returned) = 1
  /\ agg.total > 0

\* ---- C19
\* C19: the Insert calls begun and not yet returned are one for each loader
\* that is inside an Insert call, so never more than -concurrency, which is
\* also the maxConns the Client was made with.
BoundedInserts ==
  /\ inserting = Cardinality({w \in Loaders : wk[w].pc = "insert"})
  /\ inserting <= concurrency
  /\ vmCli.ret.cli # NilClient
  /\ inserting <= vmCli.ret.cli[1].maxConns
  /\ vmCli.ret.cli[1].maxConns = concurrency

BoundedInsertsWitness ==
  /\ concurrency = 2
  /\ inserting = 2
  /\ wk[1].i > 0

\* ---- C20
\* C20: a step that is a Scan call returning false leaves the scanner as it
\* was but for err, and leaves err too as it was when pos had reached
\* len(ts); no step makes pos smaller; and pos stays within 0..len(ts).
FailedScanStep ==
  /\ (call'.op = "Scan" /\ ~call'.ok) =>
       /\ s'.pos = s.pos
       /\ s'.recs = s.recs
       /\ s' = [s EXCEPT !.err = s'.err]
       /\ s.pos >= Len(s.ts) => s'.err = s.err
       /\ s.pos < Len(s.ts) => s'.err # "nil"
  /\ s'.pos >= s.pos
  /\ 0 <= s.pos /\ s.pos <= Len(s.ts)
  /\ 0 <= s'.pos /\ s'.pos <= Len(s'.ts)

FailedScanFrame == [][FailedScanStep]_vars

FailedScanFrameWitness ==
  /\ call.op = "Scan"
  /\ ~call.ok
  /\ prev.op = "Scan"
  /\ prev.ok
  /\ s.pos = 1
  /\ Len(s.ts) = 2
  /\ Len(s.recs) = 4
  /\ s.err # "nil"

\* ---- C21
\* C21: the progress goroutine's inserted is the sum of the counts it has
\* received and added, each the length of a batch taken, so it never goes
\* down; six times inserted never exceeds total, so the percentage never
\* exceeds 100; and when the process has exited after a run without a read
\* failure, inserted is len(ts) * len(la) * len(lo), a sixth of
\* TotalRecCount.
RECURSIVE SumFirst(_, _)
SumFirst(q, k) == IF k = 0 THEN 0 ELSE q[k] + SumFirst(q, k - 1)

Added == Len(counted) - (IF agg.pc = "add" THEN 1 ELSE 0)

Accounted ==
  /\ agg.inserted = SumFirst(counted, Added)
  /\ agg.pc = "add" => agg.n = counted[Len(counted)]
  /\ \A q \in 1..Len(counted) : counted[q] = Len(taken[q]) /\ counted[q] >= 0
  /\ agg.pc # "start" =>
       /\ agg.total = TotalRecCount(s)
       /\ NumMetrics * agg.inserted <= agg.total
       /\ 100 * agg.inserted <= 100 * agg.total

ProgressAccounting ==
  /\ Accounted
  /\ (mainPc = "exited" /\ s.err = "nil") =>
       /\ agg.inserted = Len(s.ts) * GridSize
       /\ NumMetrics * agg.inserted = TotalRecCount(s)

====
